---- MODULE Spec2Model ----
(***************************************************************************)
(* Model of the Whalebone MCP server: the response-shaping pipeline of     *)
(* WhaleboneClient (limitResults, truncateObject, enforceResponseSize) and *)
(* the tool-call handler around it.                                        *)
(*                                                                         *)
(* A JSON value is a tagged record.  A string is the sequence of its       *)
(* UTF-16 units, each a one-character TLA+ string, so that .length is Len  *)
(* and .substring is SubSeq.  Object keys are strings too, kept in         *)
(* insertion order (the order of Object.entries).                          *)
(***************************************************************************)
EXTENDS Integers, Sequences, FiniteSets, TLC

\* ------------------------------------------------------------ JSON values

JNull == [t |-> "null"]
JBool(b) == [t |-> "bool", b |-> b]
JNum(n) == [t |-> "num", n |-> n]
JStr(s) == [t |-> "str", s |-> s]
JArr(items) == [t |-> "arr", items |-> items]
JObj(keys, vals) == [t |-> "obj", keys |-> keys, vals |-> vals]

Min(a, b) == IF a <= b THEN a ELSE b
Max(a, b) == IF a >= b THEN a ELSE b

\* Array.prototype.slice(0, end): a negative end counts from the end of the array.
Slice(seq, end) ==
    LET k == IF end < 0 THEN Max(Len(seq) + end, 0) ELSE Min(end, Len(seq))
    IN SubSeq(seq, 1, k)

\* String.prototype.substring(0, end) for end >= 0.
Substring(s, end) == SubSeq(s, 1, Min(end, Len(s)))

\* Number.prototype.toString of an integer, as used by template literals and
\* by JSON.stringify.
RECURSIVE Digits(_)
Digits(n) ==
    IF n < 10 THEN <<SubSeq(<<"0","1","2","3","4","5","6","7","8","9">>, n + 1, n + 1)[1]>>
    ELSE Digits(n \div 10) \o Digits(n % 10)

NumToString(n) == IF n < 0 THEN <<"-">> \o Digits(0 - n) ELSE Digits(n)

\* JSON.stringify's escaping of one UTF-16 unit of a string.
EscapeChar(c) ==
    CASE c = "\"" -> <<"\\", "\"">>
      [] c = "\\" -> <<"\\", "\\">>
      [] c = "\n" -> <<"\\", "n">>
      [] OTHER -> <<c>>

RECURSIVE EscapeRange(_, _, _)
EscapeRange(s, lo, hi) ==
    IF lo > hi THEN <<>>
    ELSE IF lo = hi THEN EscapeChar(s[lo])
    ELSE LET mid == (lo + hi) \div 2
         IN EscapeRange(s, lo, mid) \o EscapeRange(s, mid + 1, hi)

Quote(s) == <<"\"">> \o EscapeRange(s, 1, Len(s)) \o <<"\"">>

\* Array.prototype.join(","), over already serialized parts.
RECURSIVE JoinComma(_)
JoinComma(parts) ==
    IF Len(parts) = 0 THEN <<>>
    ELSE IF Len(parts) = 1 THEN parts[1]
    ELSE JoinComma(SubSeq(parts, 1, Len(parts) - 1)) \o <<",">> \o parts[Len(parts)]

\* JSON.stringify(value) with no indentation.
RECURSIVE Stringify(_)
Stringify(v) ==
    CASE v.t = "null" -> <<"n","u","l","l">>
      [] v.t = "bool" -> IF v.b THEN <<"t","r","u","e">> ELSE <<"f","a","l","s","e">>
      [] v.t = "num" -> NumToString(v.n)
      [] v.t = "str" -> Quote(v.s)
      [] v.t = "arr" ->
            <<"[">> \o JoinComma([i \in 1..Len(v.items) |-> Stringify(v.items[i])]) \o <<"]">>
      [] v.t = "obj" ->
            <<"{">>
            \o JoinComma([i \in 1..Len(v.keys) |->
                            Quote(v.keys[i]) \o <<":">> \o Stringify(v.vals[i])])
            \o <<"}">>

\* ------------------------------------------------------ response constraints

DEFAULT_MAX_RESULTS == 50
DEFAULT_MAX_RESPONSE_SIZE == 50000
MAX_STRING_LENGTH == 1000

\* "... [truncated]"
TruncationMarker ==
    <<".",".","."," ","[","t","r","u","n","c","a","t","e","d","]">>

K_results == <<"r","e","s","u","l","t","s">>
K_total_available == <<"t","o","t","a","l","_","a","v","a","i","l","a","b","l","e">>
K_returned == <<"r","e","t","u","r","n","e","d">>
K_truncated == <<"t","r","u","n","c","a","t","e","d">>
K_message == <<"m","e","s","s","a","g","e">>

WrapperKeys == <<K_results, K_total_available, K_returned, K_truncated, K_message>>

\* The object literal {results, total_available, returned, truncated, message}.
Wrapper(results, total, returned, message) ==
    JObj(WrapperKeys,
         <<JArr(results), JNum(total), JNum(returned), JBool(TRUE), JStr(message)>>)

\* `Results limited to ${maxResults} items out of ${data.length} total. Use
\* pagination parameters to access more results.`
LimitMessage(maxResults, total) ==
    <<"R","e","s","u","l","t","s"," ","l","i","m","i","t","e","d"," ","t","o"," ">>
    \o NumToString(maxResults)
    \o <<" ","i","t","e","m","s"," ","o","u","t"," ","o","f"," ">>
    \o NumToString(total)
    \o <<" ","t","o","t","a","l","."," ","U","s","e"," ","p","a","g","i","n","a","t","i","o","n",
         " ","p","a","r","a","m","e","t","e","r","s"," ","t","o"," ","a","c","c","e","s","s"," ",
         "m","o","r","e"," ","r","e","s","u","l","t","s",".">>

\* `Response truncated due to size constraints. Showing ${Math.max(1, maxItems)}
\* of ${data.length} items.`
SizeMessage(shown, total) ==
    <<"R","e","s","p","o","n","s","e"," ","t","r","u","n","c","a","t","e","d"," ","d","u","e",
      " ","t","o"," ","s","i","z","e"," ","c","o","n","s","t","r","a","i","n","t","s","."," ",
      "S","h","o","w","i","n","g"," ">>
    \o NumToString(shown)
    \o <<" ","o","f"," ">>
    \o NumToString(total)
    \o <<" ","i","t","e","m","s",".">>

\* ------------------------------------------------------------- the Shaper
\* c is this.config: [maxResults, maxResponseSize, enableTruncation].  parseInt
\* yields an integer or NaN; NaN and 0 are both falsy for `||`, and 0 stands for
\* both here.

\* A variant of truncateString that keeps one unit too many.
truncateStringKeepsOneMore(c, str) ==
    IF ~c.enableTruncation \/ Len(str) <= MAX_STRING_LENGTH
    THEN str
    ELSE Substring(str, MAX_STRING_LENGTH + 1) \o TruncationMarker

\* A variant of truncateString that puts the marker in front of the kept units.
truncateStringMarksFront(c, str) ==
    IF ~c.enableTruncation \/ Len(str) <= MAX_STRING_LENGTH
    THEN str
    ELSE TruncationMarker \o Substring(str, MAX_STRING_LENGTH)

truncateString(c, str) ==
    IF ~c.enableTruncation \/ Len(str) <= MAX_STRING_LENGTH
    THEN str
    ELSE Substring(str, MAX_STRING_LENGTH) \o TruncationMarker

RECURSIVE truncateObject(_, _)
truncateObject(c, obj) ==
    IF ~c.enableTruncation THEN obj
    ELSE CASE obj.t = "str" -> JStr(truncateString(c, obj.s))
           [] obj.t = "arr" ->
                 JArr([i \in 1..Len(obj.items) |-> truncateObject(c, obj.items[i])])
           [] obj.t = "obj" ->
                 JObj(obj.keys, [i \in 1..Len(obj.vals) |-> truncateObject(c, obj.vals[i])])
           [] OTHER -> obj

\* The default of limitResults' second parameter.
EffectiveMaxResults(c) ==
    IF c.maxResults # 0 THEN c.maxResults ELSE DEFAULT_MAX_RESULTS

\* A variant of limitResults that walks every level: the elements of a sequence
\* and all the values of a mapping are limited in turn.
RECURSIVE limitResultsEveryLevel(_, _)
limitResultsEveryLevel(data, maxResults) ==
    CASE data.t = "arr" ->
            LET limited == Slice(data.items, maxResults)
                walked == [i \in 1..Len(limited) |->
                             limitResultsEveryLevel(limited[i], maxResults)]
            IN IF Len(data.items) > maxResults
               THEN Wrapper(walked, Len(data.items), Len(limited),
                            LimitMessage(maxResults, Len(data.items)))
               ELSE JArr(walked)
      [] data.t = "obj" ->
            JObj(data.keys,
                 [i \in 1..Len(data.vals) |->
                    limitResultsEveryLevel(data.vals[i], maxResults)])
      [] OTHER -> data

\* A variant of limitResults that builds the wrapper without slicing.
RECURSIVE limitResultsNoSlice(_, _)
limitResultsNoSlice(data, maxResults) ==
    CASE data.t = "arr" ->
            IF Len(data.items) > maxResults
            THEN Wrapper(data.items, Len(data.items), Len(data.items),
                         LimitMessage(maxResults, Len(data.items)))
            ELSE data
      [] data.t = "obj" ->
            JObj(data.keys,
                 [i \in 1..Len(data.vals) |->
                    IF data.vals[i].t = "arr"
                    THEN limitResultsNoSlice(data.vals[i], maxResults)
                    ELSE data.vals[i]])
      [] OTHER -> data

\* A variant of limitResults that wraps at length = maxResults already.
RECURSIVE limitResultsWrapsAtLimit(_, _)
limitResultsWrapsAtLimit(data, maxResults) ==
    CASE data.t = "arr" ->
            LET limited == Slice(data.items, maxResults)
            IN IF Len(data.items) >= maxResults
               THEN Wrapper(limited, Len(data.items), Len(limited),
                            LimitMessage(maxResults, Len(data.items)))
               ELSE JArr(limited)
      [] data.t = "obj" ->
            JObj(data.keys,
                 [i \in 1..Len(data.vals) |->
                    IF data.vals[i].t = "arr"
                    THEN limitResultsWrapsAtLimit(data.vals[i], maxResults)
                    ELSE data.vals[i]])
      [] OTHER -> data

RECURSIVE limitResults(_, _)
limitResults(data, maxResults) ==
    CASE data.t = "arr" ->
            LET limited == Slice(data.items, maxResults)
            IN IF Len(data.items) > maxResults
               THEN Wrapper(limited, Len(data.items), Len(limited),
                            LimitMessage(maxResults, Len(data.items)))
               ELSE JArr(limited)
      [] data.t = "obj" ->
            JObj(data.keys,
                 [i \in 1..Len(data.vals) |->
                    IF data.vals[i].t = "arr"
                    THEN limitResults(data.vals[i], maxResults)
                    ELSE data.vals[i]])
      [] OTHER -> data

EffectiveMaxSize(c) ==
    IF c.maxResponseSize # 0 THEN c.maxResponseSize ELSE DEFAULT_MAX_RESPONSE_SIZE

\* A variant of the item budget without the 80% safety margin.
MaxItemsWithoutMargin(maxSize, length, count) ==
    IF count = 0 THEN 0
    ELSE LET itemSize == length \div count
         IN maxSize \div itemSize

\* Math.floor(maxSize / itemSize * 0.8), itemSize = Math.floor(length / count).
\* A count of 0 makes itemSize Infinity and the quotient 0.  Otherwise the double
\* result is floor(4 * maxSize / (5 * itemSize)): when that quotient is an integer
\* maxSize / itemSize is a multiple of 1/4 and exact, and the double 0.8 lies above
\* 4/5; when it is not, it is at least 1 / (5 * itemSize) away from an integer.
MaxItems(maxSize, length, count) ==
    IF count = 0 THEN 0
    ELSE LET itemSize == length \div count
         IN (4 * maxSize) \div (5 * itemSize)

enforceResponseSize(c, data) ==
    LET length == Len(Stringify(data))
        maxSize == EffectiveMaxSize(c)
    IN IF length <= maxSize THEN data
       ELSE IF data.t = "arr"
            THEN LET maxItems == MaxItems(maxSize, length, Len(data.items))
                     shown == Max(1, maxItems)
                 IN Wrapper(Slice(data.items, shown), Len(data.items), shown,
                            SizeMessage(shown, Len(data.items)))
            ELSE truncateObject(c, data)

processResponse(c, data) ==
    LET limited == limitResults(data, EffectiveMaxResults(c))
        truncated == truncateObject(c, limited)
    IN enforceResponseSize(c, truncated)

\* ------------------------------------------------------- reading a value

HasKey(v, key) == v.t = "obj" /\ \E i \in 1..Len(v.keys) : v.keys[i] = key
Field(v, key) == v.vals[CHOOSE i \in 1..Len(v.keys) : v.keys[i] = key]

IsWrapper(v) == v.t = "obj" /\ v.keys = WrapperKeys


\* ------------------------------------------------------- the tool handler
\* Two server files are modelled: "index" is src/src/index.ts (ten tools, no
\* Shaper) and "limits" is the file with the response constraints (eight tools,
\* the two privacy-sensitive ones commented out).

Builds == {"index", "limits"}

\* The tool names of the dispatch switch.
T_search_events ==
    <<"s","e","a","r","c","h","_","e","v","e","n","t","s">>
T_get_events_timeline ==
    <<"g","e","t","_","e","v","e","n","t","s","_","t","i","m","e","l","i","n","e">>
T_get_events_stats ==
    <<"g","e","t","_","e","v","e","n","t","s","_","s","t","a","t","s">>
T_get_dns_timeline ==
    <<"g","e","t","_","d","n","s","_","t","i","m","e","l","i","n","e">>
T_get_dnssec_timeline ==
    <<"g","e","t","_","d","n","s","s","e","c","_","t","i","m","e","l","i","n","e">>
T_get_ioc_count ==
    <<"g","e","t","_","i","o","c","_","c","o","u","n","t">>
T_get_resolver_metrics ==
    <<"g","e","t","_","r","e","s","o","l","v","e","r","_","m","e","t","r","i","c","s">>
T_analyze_domain ==
    <<"a","n","a","l","y","z","e","_","d","o","m","a","i","n">>
T_get_audit_logs ==
    <<"g","e","t","_","a","u","d","i","t","_","l","o","g","s">>
T_get_idp_incidents ==
    <<"g","e","t","_","i","d","p","_","i","n","c","i","d","e","n","t","s">>

\* The endpoint paths of the WhaleboneClient methods.
P_events_search ==
    <<"/","e","v","e","n","t","s","/","s","e","a","r","c","h">>
P_events_timeline ==
    <<"/","e","v","e","n","t","s","/","t","i","m","e","l","i","n","e">>
P_events_stats ==
    <<"/","e","v","e","n","t","s","/","s","t","a","t","s">>
P_dns_timeline ==
    <<"/","d","n","s","/","t","i","m","e","l","i","n","e">>
P_dnssec_timeline ==
    <<"/","d","n","s","s","e","c","/","t","i","m","e","l","i","n","e">>
P_ioc_count ==
    <<"/","i","o","c","/","c","o","u","n","t">>
P_resolver_metrics ==
    <<"/","r","e","s","o","l","v","e","r","/","m","e","t","r","i","c","s">>
P_domain_analysis ==
    <<"/","d","o","m","a","i","n","/","a","n","a","l","y","s","i","s">>
P_audit_logs ==
    <<"/","a","u","d","i","t","/","l","o","g","s">>
P_idp_incidents ==
    <<"/","i","d","p","/","i","n","c","i","d","e","n","t","s">>

\* Message texts.
S_fqdn ==
    <<"f","q","d","n">>
S_fqdn_required ==
    <<"f","q","d","n"," ","p","a","r","a","m","e","t","e","r"," ","i","s"," ","r","e","q","u",
      "i","r","e","d">>
S_unknown_tool ==
    <<"U","n","k","n","o","w","n"," ","t","o","o","l",":"," ">>
S_api_error ==
    <<"W","h","a","l","e","b","o","n","e"," ","A","P","I"," ","e","r","r","o","r",":"," ">>
S_error_prefix ==
    <<"E","r","r","o","r",":"," ">>
S_too_large ==
    <<"t","o","o"," ","l","a","r","g","e">>
S_truncated ==
    <<"t","r","u","n","c","a","t","e","d">>
S_tip ==
    <<"\n","\n","T","i","p",":"," ","T","r","y"," ","u","s","i","n","g"," ","m","o","r","e"," ",
      "s","p","e","c","i","f","i","c"," ","f","i","l","t","e","r","s"," ","(","d","a","t","e",
      " ","r","a","n","g","e","s",","," ","d","o","m","a","i","n","s",","," ","I","P","s",")",
      " ","o","r"," ","p","a","g","i","n","a","t","i","o","n"," ","t","o"," ","g","e","t"," ",
      "s","m","a","l","l","e","r"," ","r","e","s","u","l","t"," ","s","e","t","s",".">>
S_true ==
    <<"t","r","u","e">>
S_false ==
    <<"f","a","l","s","e">>
S_object ==
    <<"[","o","b","j","e","c","t"," ","O","b","j","e","c","t","]">>
S_null_tostring ==
    <<"C","a","n","n","o","t"," ","r","e","a","d"," ","p","r","o","p","e","r","t","i","e","s",
      " ","o","f"," ","n","u","l","l"," ","(","r","e","a","d","i","n","g"," ","'","t","o","S",
      "t","r","i","n","g","'",")">>

Undefined == [t |-> "undefined"]

\* s.includes(sub)
Includes(s, sub) ==
    \E i \in 1..(Len(s) - Len(sub) + 1) : SubSeq(s, i, i + Len(sub) - 1) = sub

\* Property access on the argument bag: undefined when the key is absent.
Lookup(bag, key) == IF HasKey(bag, key) THEN Field(bag, key) ELSE Undefined

\* JavaScript truthiness of a JSON value (or undefined).
Truthy(v) ==
    CASE v.t = "undefined" -> FALSE
      [] v.t = "null" -> FALSE
      [] v.t = "bool" -> v.b
      [] v.t = "num" -> v.n # 0
      [] v.t = "str" -> Len(v.s) > 0
      [] OTHER -> TRUE

\* Whether value.toString() throws: only null and undefined have no toString.
\* Inside Array.prototype.toString a null element becomes the empty string.
CanToString(v) == v.t \notin {"null", "undefined"}

RECURSIVE ValueToString(_)
ValueToString(v) ==
    CASE v.t = "str" -> v.s
      [] v.t = "num" -> NumToString(v.n)
      [] v.t = "bool" -> IF v.b THEN S_true ELSE S_false
      [] v.t = "arr" ->
            JoinComma([i \in 1..Len(v.items) |->
                         IF CanToString(v.items[i]) THEN ValueToString(v.items[i]) ELSE <<>>])
      [] v.t = "obj" -> S_object
      [] OTHER -> <<>>

\* url.searchParams.append for every entry of params, in Object.entries order:
\* the list of (key, string) pairs, or the TypeError of a null array element.
RECURSIVE AppendParams(_, _)
AppendParams(params, i) ==
    IF i > Len(params.keys) THEN [ok |-> TRUE, pairs |-> <<>>]
    ELSE LET value == params.vals[i]
             rest == AppendParams(params, i + 1)
             here ==
                 IF value.t \in {"null", "undefined"} THEN [ok |-> TRUE, pairs |-> <<>>]
                 ELSE IF value.t = "arr"
                 THEN IF \E j \in 1..Len(value.items) : ~CanToString(value.items[j])
                      THEN [ok |-> FALSE, message |-> S_null_tostring]
                      ELSE [ok |-> TRUE,
                            pairs |-> [j \in 1..Len(value.items) |->
                                         <<params.keys[i], ValueToString(value.items[j])>>]]
                 ELSE [ok |-> TRUE, pairs |-> <<<<params.keys[i], ValueToString(value)>>>>]
         IN IF ~here.ok THEN here
            ELSE IF ~rest.ok THEN rest
            ELSE [ok |-> TRUE, pairs |-> here.pairs \o rest.pairs]

\* The application/x-www-form-urlencoded serializer of URLSearchParams, on the
\* characters the arguments use: letters, digits and *-._ stay, a space becomes
\* "+", the others are percent-encoded.
FormEncodeChar(ch) ==
    CASE ch = " " -> <<"+">>
      [] ch = "&" -> <<"%","2","6">>
      [] ch = "=" -> <<"%","3","D">>
      [] ch = "," -> <<"%","2","C">>
      [] ch = "[" -> <<"%","5","B">>
      [] ch = "]" -> <<"%","5","D">>
      [] ch = "\"" -> <<"%","2","2">>
      [] OTHER -> <<ch>>

RECURSIVE FormEncode(_)
FormEncode(s) ==
    IF Len(s) = 0 THEN <<>> ELSE FormEncodeChar(Head(s)) \o FormEncode(Tail(s))

RECURSIVE JoinAmp(_)
JoinAmp(parts) ==
    IF Len(parts) = 0 THEN <<>>
    ELSE IF Len(parts) = 1 THEN parts[1]
    ELSE JoinAmp(SubSeq(parts, 1, Len(parts) - 1)) \o <<"&">> \o parts[Len(parts)]

\* url.searchParams.toString()
QueryString(pairs) ==
    JoinAmp([i \in 1..Len(pairs) |->
               FormEncode(pairs[i][1]) \o <<"=">> \o FormEncode(pairs[i][2])])

EmptyBag == JObj(<<>>, <<>>)

\* The switch of the CallToolRequestSchema handler together with the client
\* method each case calls: the endpoint and the parameters handed to
\* makeRequest, or the Error thrown before any request.
Request(endpoint, params) == [kind |-> "request", endpoint |-> endpoint, params |-> params]
Throw(message) == [kind |-> "throw", message |-> message]

\* A variant of the switch whose analyze_domain case does not check fqdn.
DispatchWithoutFqdnCheck(b, name, toolArgs) ==
    CASE name = T_search_events -> Request(P_events_search, toolArgs)
      [] name = T_get_events_timeline -> Request(P_events_timeline, toolArgs)
      [] name = T_get_events_stats -> Request(P_events_stats, toolArgs)
      [] name = T_get_dns_timeline -> Request(P_dns_timeline, toolArgs)
      [] name = T_get_dnssec_timeline -> Request(P_dnssec_timeline, toolArgs)
      [] name = T_get_ioc_count -> Request(P_ioc_count, EmptyBag)
      [] name = T_get_resolver_metrics -> Request(P_resolver_metrics, toolArgs)
      [] name = T_analyze_domain ->
            Request(P_domain_analysis, JObj(<<S_fqdn>>, <<Lookup(toolArgs, S_fqdn)>>))
      [] name = T_get_audit_logs /\ b = "index" -> Request(P_audit_logs, toolArgs)
      [] name = T_get_idp_incidents /\ b = "index" -> Request(P_idp_incidents, toolArgs)
      [] OTHER -> Throw(S_unknown_tool \o name)

\* A variant of the switch whose get_dnssec_timeline case calls getDnsTimeline.
DispatchToWrongMethod(b, name, toolArgs) ==
    CASE name = T_search_events -> Request(P_events_search, toolArgs)
      [] name = T_get_events_timeline -> Request(P_events_timeline, toolArgs)
      [] name = T_get_events_stats -> Request(P_events_stats, toolArgs)
      [] name = T_get_dns_timeline -> Request(P_dns_timeline, toolArgs)
      [] name = T_get_dnssec_timeline -> Request(P_dns_timeline, toolArgs)
      [] name = T_get_ioc_count -> Request(P_ioc_count, EmptyBag)
      [] name = T_get_resolver_metrics -> Request(P_resolver_metrics, toolArgs)
      [] name = T_analyze_domain ->
            IF ~Truthy(Lookup(toolArgs, S_fqdn))
            THEN Throw(S_fqdn_required)
            ELSE Request(P_domain_analysis, JObj(<<S_fqdn>>, <<Lookup(toolArgs, S_fqdn)>>))
      [] name = T_get_audit_logs /\ b = "index" -> Request(P_audit_logs, toolArgs)
      [] name = T_get_idp_incidents /\ b = "index" -> Request(P_idp_incidents, toolArgs)
      [] OTHER -> Throw(S_unknown_tool \o name)

Dispatch(b, name, toolArgs) ==
    CASE name = T_search_events -> Request(P_events_search, toolArgs)
      [] name = T_get_events_timeline -> Request(P_events_timeline, toolArgs)
      [] name = T_get_events_stats -> Request(P_events_stats, toolArgs)
      [] name = T_get_dns_timeline -> Request(P_dns_timeline, toolArgs)
      [] name = T_get_dnssec_timeline -> Request(P_dnssec_timeline, toolArgs)
      [] name = T_get_ioc_count -> Request(P_ioc_count, EmptyBag)
      [] name = T_get_resolver_metrics -> Request(P_resolver_metrics, toolArgs)
      [] name = T_analyze_domain ->
            IF ~Truthy(Lookup(toolArgs, S_fqdn))
            THEN Throw(S_fqdn_required)
            ELSE Request(P_domain_analysis, JObj(<<S_fqdn>>, <<Lookup(toolArgs, S_fqdn)>>))
      [] name = T_get_audit_logs /\ b = "index" -> Request(P_audit_logs, toolArgs)
      [] name = T_get_idp_incidents /\ b = "index" -> Request(P_idp_incidents, toolArgs)
      [] OTHER -> Throw(S_unknown_tool \o name)

\* JSON.stringify(value, null, 2)
Spaces(n) == [i \in 1..n |-> " "]

RECURSIVE JoinLines(_)
JoinLines(parts) ==
    IF Len(parts) = 0 THEN <<>>
    ELSE IF Len(parts) = 1 THEN parts[1]
    ELSE JoinLines(SubSeq(parts, 1, Len(parts) - 1)) \o <<",", "\n">> \o parts[Len(parts)]

RECURSIVE StringifyPretty(_, _)
StringifyPretty(v, indent) ==
    CASE v.t = "arr" ->
            IF Len(v.items) = 0 THEN <<"[", "]">>
            ELSE <<"[", "\n">>
                 \o JoinLines([i \in 1..Len(v.items) |->
                                 Spaces(indent + 2) \o StringifyPretty(v.items[i], indent + 2)])
                 \o <<"\n">> \o Spaces(indent) \o <<"]">>
      [] v.t = "obj" ->
            IF Len(v.keys) = 0 THEN <<"{", "}">>
            ELSE <<"{", "\n">>
                 \o JoinLines([i \in 1..Len(v.keys) |->
                                 Spaces(indent + 2) \o Quote(v.keys[i]) \o <<":", " ">>
                                 \o StringifyPretty(v.vals[i], indent + 2)])
                 \o <<"\n">> \o Spaces(indent) \o <<"}">>
      [] OTHER -> Stringify(v)

\* The reply of the try block.
SuccessReply(result) == [content |-> StringifyPretty(result, 0)]

\* A variant of the catch block that leaves isError out.
ErrorReplyWithoutFlag(b, errorMessage) == [content |-> S_error_prefix \o errorMessage]

\* The reply of the catch block; the "limits" file appends a tip when the
\* message mentions size or truncation.
ErrorReply(b, errorMessage) ==
    LET helpfulError ==
            IF /\ b = "limits"
               /\ (Includes(errorMessage, S_too_large) \/ Includes(errorMessage, S_truncated))
            THEN errorMessage \o S_tip
            ELSE errorMessage
    IN [content |-> S_error_prefix \o helpfulError, isError |-> TRUE]

\* A call: where its handler stands (pc), what it was called with, the request
\* it issued, what came back (status, body), and its reply.
NoRequest == [method |-> "none"]
NoReply == [content |-> <<>>, pending |-> TRUE]

IdleCall ==
    [pc |-> "idle", name |-> <<>>, args |-> Undefined, request |-> NoRequest,
     requests |-> 0, status |-> 0, statusText |-> <<>>, parsed |-> FALSE,
     body |-> Undefined, shaped |-> FALSE, outcome |-> "none", errorMessage |-> <<>>,
     reply |-> NoReply]

\* The catch block: errorMessage is the caught error's message, and the call
\* ends with the error reply.  kind names the throw site.
Fail(b, call, kind, message) ==
    [call EXCEPT !.pc = "replied", !.outcome = kind, !.errorMessage = message,
                 !.reply = ErrorReply(b, message)]

\* The handler from the arrival of {name, arguments} to its first await (the
\* fetch of makeRequest) or, when something throws before it, to its reply.
Arrive(b, name, args) ==
    LET toolArgs == IF Truthy(args) THEN args ELSE EmptyBag
        d == Dispatch(b, name, toolArgs)
        call == [IdleCall EXCEPT !.name = name, !.args = args]
    IN IF d.kind = "throw" THEN Fail(b, call, "local", d.message)
       ELSE LET q == AppendParams(d.params, 1)
            IN IF ~q.ok THEN Fail(b, call, "local", q.message)
               ELSE [call EXCEPT
                       !.pc = "awaitFetch",
                       !.requests = @ + 1,
                       !.request = [method |-> "GET", path |-> d.endpoint,
                                    query |-> QueryString(q.pairs)]]

\* fetch rejected: a network-level failure.
FetchRejected(b, call, message) == Fail(b, call, "network", message)

\* A variant that fetches once more after a status outside 200..299.
FetchResolvedRetries(b, call, status, statusText) ==
    LET got == [call EXCEPT !.status = status, !.statusText = statusText]
    IN IF ~(status >= 200 /\ status <= 299)
       THEN IF call.requests < 2
            THEN [call EXCEPT !.requests = @ + 1]
            ELSE Fail(b, got, "status",
                      S_api_error \o NumToString(status) \o <<" ">> \o statusText)
       ELSE [got EXCEPT !.pc = "awaitJson", !.parsed = TRUE]

\* A variant that reads the body whatever the status.
FetchResolvedIgnoresStatus(b, call, status, statusText) ==
    [call EXCEPT !.status = status, !.statusText = statusText,
                 !.pc = "awaitJson", !.parsed = TRUE]

\* A variant that swallows the error of a status outside 200..299: nothing is
\* thrown and nothing is returned, the handler is left waiting.
FetchResolvedSwallowsStatus(b, call, status, statusText) ==
    LET got == [call EXCEPT !.status = status, !.statusText = statusText]
    IN IF ~(status >= 200 /\ status <= 299)
       THEN [got EXCEPT !.pc = "stuck"]
       ELSE [got EXCEPT !.pc = "awaitJson", !.parsed = TRUE]

\* fetch resolved with a response: a status outside 200..299 throws, otherwise
\* the handler awaits response.json().
FetchResolved(b, call, status, statusText) ==
    LET got == [call EXCEPT !.status = status, !.statusText = statusText]
    IN IF ~(status >= 200 /\ status <= 299)
       THEN Fail(b, got, "status",
                 S_api_error \o NumToString(status) \o <<" ">> \o statusText)
       ELSE [got EXCEPT !.pc = "awaitJson", !.parsed = TRUE]

\* response.json() rejected: the body is not JSON.
JsonRejected(b, call, message) == Fail(b, call, "parse", message)

\* response.json() resolved: the Shaper (in the "limits" file), then the reply.
JsonResolved(b, c, call, rawData) ==
    LET result == IF b = "limits" THEN processResponse(c, rawData) ELSE rawData
    IN [call EXCEPT !.pc = "replied", !.outcome = "ok", !.body = rawData,
                    !.shaped = (b = "limits"),
                    !.reply = SuccessReply(result)]

\* ------------------------------------------------------------ the inputs

MaxArrayLen == 3

Ka == <<"a">>
Kb == <<"b">>

\* A string of n units with varying content; every seventh unit is a quote,
\* which JSON.stringify escapes.
TextOf(n) ==
    [i \in 1..n |-> IF i % 7 = 0 THEN "\"" ELSE IF i % 2 = 0 THEN "a" ELSE "b"]

StringLengths ==
    {0, 1, 2, MAX_STRING_LENGTH - 1, MAX_STRING_LENGTH, MAX_STRING_LENGTH + 1,
     MAX_STRING_LENGTH + 2, MAX_STRING_LENGTH + Len(TruncationMarker),
     MAX_STRING_LENGTH + Len(TruncationMarker) + 1}

Repeat(v, n) == [i \in 1..n |-> v]

\* The elements of the enumerated arrays: a number, a short and an over-long
\* string, and an array nested one level down.
Elems ==
    {JNum(1), JStr(TextOf(2)), JStr(TextOf(MAX_STRING_LENGTH + 1)),
     JArr(<<JNum(1), JNum(2), JNum(3)>>)}

SeqsUpTo(S, n) == UNION {[1..k -> S] : k \in 0..n}

SmallArrays == {JArr(items) : items \in SeqsUpTo(Elems, MaxArrayLen)}

\* Arrays that reach the defaults: more than DEFAULT_MAX_RESULTS elements, more
\* than DEFAULT_MAX_RESPONSE_SIZE characters, and arrays of uneven elements.
Nums51 == JArr(Repeat(JNum(1), DEFAULT_MAX_RESULTS + 1))
Mixed35 == JArr(Repeat(JNum(22), 32) \o Repeat(JNum(1), 3))
Long50 == JArr(Repeat(JStr(TextOf(MAX_STRING_LENGTH + 1)), DEFAULT_MAX_RESULTS))
Skewed13 == JArr(Repeat(JStr(TextOf(MAX_STRING_LENGTH - 1)), 3) \o Repeat(JNum(1), 10))

BigArrays == {Nums51, Mixed35, Long50, Skewed13}

Scalars ==
    {JNull, JBool(TRUE), JBool(FALSE), JNum(1), JNum(22)}
    \cup {JStr(TextOf(n)) : n \in StringLengths}

ObjectVals ==
    Elems \cup {JNull, JArr(<<>>), JArr(Repeat(JNum(1), MaxArrayLen)), Mixed35,
                JArr(<<JArr(<<JNum(1), JNum(2), JNum(3)>>)>>),
                JObj(<<Kb>>, <<JArr(Repeat(JNum(1), MaxArrayLen))>>)}

Objects ==
    {JObj(<<>>, <<>>)}
    \cup {JObj(<<Ka>>, <<v>>) : v \in ObjectVals}
    \cup {JObj(<<Ka, Kb>>, <<v, w>>) :
            v \in {JArr(Repeat(JNum(1), MaxArrayLen)), JStr(TextOf(MAX_STRING_LENGTH + 1))},
            w \in {JNum(1), JArr(Repeat(JStr(TextOf(2)), MaxArrayLen))}}

RawValues == Scalars \cup SmallArrays \cup BigArrays \cup Objects

\* WHALEBONE_MAX_RESULTS and WHALEBONE_MAX_RESPONSE_SIZE go through parseInt
\* unchecked: any integer is a configuration.
MaxResultsValues == {-1, 0, 2}
MaxResponseSizeValues == {0, 1, 100, 3000}

Configs ==
    [maxResults : MaxResultsValues, maxResponseSize : MaxResponseSizeValues,
     enableTruncation : BOOLEAN]

S_get_truncated ==
    <<"g","e","t","_","t","r","u","n","c","a","t","e","d","_","e","v","e","n","t","s">>
S_domain ==
    <<"d","o","m","a","i","n">>
S_device_id ==
    <<"d","e","v","i","c","e","_","i","d">>
S_limit ==
    <<"l","i","m","i","t">>
S_example ==
    <<"e","x","a","m","p","l","e",".","c","o","m">>
S_fetch_failed ==
    <<"f","e","t","c","h"," ","f","a","i","l","e","d">>
S_bad_json ==
    <<"U","n","e","x","p","e","c","t","e","d"," ","e","n","d"," ","o","f"," ","J","S","O","N",
      " ","i","n","p","u","t">>
S_ok ==
    <<"O","K">>
S_unavailable ==
    <<"S","e","r","v","i","c","e"," ","U","n","a","v","a","i","l","a","b","l","e">>

MaxCalls == 2

CallIds == 1..MaxCalls

ToolNames ==
    {T_search_events, T_get_events_timeline, T_get_events_stats, T_get_dns_timeline,
     T_get_dnssec_timeline, T_get_ioc_count, T_get_resolver_metrics, T_analyze_domain,
     T_get_audit_logs, T_get_idp_incidents}

\* Names a caller may send: the ten tools and a name of no tool.
CallNames == ToolNames \cup {S_get_truncated}

\* {domain: "example.com", device_id: ["a", "b"], limit: null}
QueryBag ==
    JObj(<<S_domain, S_device_id, S_limit>>,
         <<JStr(S_example), JArr(<<JStr(<<"a">>), JStr(<<"b">>)>>), JNull>>)

\* {device_id: [null]}
NullElementBag == JObj(<<S_device_id>>, <<JArr(<<JNull>>)>>)

\* The argument bags sent with a name; Undefined is a call without arguments.
ArgsFor(name) ==
    IF name = T_analyze_domain
    THEN {Undefined, EmptyBag, JObj(<<S_fqdn>>, <<JStr(S_example)>>),
          JObj(<<S_fqdn>>, <<JStr(<<>>)>>)}
    ELSE IF name = T_search_events
    THEN {QueryBag, NullElementBag}
    ELSE {EmptyBag}

\* What the remote API and the network may answer.
Responses ==
    {<<200, S_ok>>, <<503, S_unavailable>>}
NetworkErrors == {S_fetch_failed}
ParseErrors == {S_bad_json}
Bodies ==
    {JObj(<<Ka>>, <<JNum(1)>>), JArr(Repeat(JNum(1), MaxArrayLen))}

HandlerConfigs ==
    {c \in Configs : c.maxResults = 2 /\ c.maxResponseSize = 0 /\ c.enableTruncation}

\* --------------------------------------------------------------- the state

VARIABLES
    build,   \* which server file runs
    cfg,     \* the configuration, built once at startup
    calls,   \* the tool calls, by call id
    raw,     \* a raw response handed to the Shaper
    out,     \* processResponse(raw)
    out2,    \* processResponse(out)
    phase    \* "input", "once" (out is set), "twice" (out2 is set); "off" under Spec

shaperVars == <<raw, out, out2, phase>>
vars == <<build, cfg, calls, raw, out, out2, phase>>

\* ---- the Shaper alone, on every enumerated input and configuration

ShaperInit ==
    /\ build = "limits"
    /\ cfg \in Configs
    /\ calls = [c \in CallIds |-> IdleCall]
    /\ raw \in RawValues
    /\ out = JNull
    /\ out2 = JNull
    /\ phase = "input"

\* The Shaper applied to the raw response.
Process ==
    /\ phase = "input"
    /\ out' = processResponse(cfg, raw)
    /\ phase' = "once"
    /\ UNCHANGED <<build, cfg, calls, raw, out2>>

\* The Shaper applied to its own output.
Reprocess ==
    /\ phase = "once"
    /\ out2' = processResponse(cfg, out)
    /\ phase' = "twice"
    /\ UNCHANGED <<build, cfg, calls, raw, out>>

ShaperNext == Process \/ Reprocess

ShaperSpec == ShaperInit /\ [][ShaperNext]_vars

\* ---- the server: tool calls arriving and suspended at their awaits

Init ==
    /\ build \in Builds
    /\ cfg \in HandlerConfigs
    /\ calls = [c \in CallIds |-> IdleCall]
    /\ raw = JNull
    /\ out = JNull
    /\ out2 = JNull
    /\ phase = "off"

\* Tool call c arrives.
Receive(c) ==
    /\ calls[c].pc = "idle"
    /\ \E name \in CallNames : \E args \in ArgsFor(name) :
          calls' = [calls EXCEPT ![c] = Arrive(build, name, args)]
    /\ UNCHANGED <<build, cfg, shaperVars>>

FetchReject(c) ==
    /\ calls[c].pc = "awaitFetch"
    /\ \E message \in NetworkErrors :
          calls' = [calls EXCEPT ![c] = FetchRejected(build, calls[c], message)]
    /\ UNCHANGED <<build, cfg, shaperVars>>

FetchResolve(c) ==
    /\ calls[c].pc = "awaitFetch"
    /\ \E r \in Responses :
          calls' = [calls EXCEPT ![c] = FetchResolved(build, calls[c], r[1], r[2])]
    /\ UNCHANGED <<build, cfg, shaperVars>>

JsonReject(c) ==
    /\ calls[c].pc = "awaitJson"
    /\ \E message \in ParseErrors :
          calls' = [calls EXCEPT ![c] = JsonRejected(build, calls[c], message)]
    /\ UNCHANGED <<build, cfg, shaperVars>>

\* A variant in which the parsed body is kept in a field of the client that all
\* calls share: a call replies with the body another call has parsed before it.
JsonResolveSharedData(c) ==
    /\ calls[c].pc = "awaitJson"
    /\ \E body \in Bodies :
          LET parsed == {d \in CallIds : calls[d].body # Undefined}
              data == IF parsed = {} THEN body ELSE calls[CHOOSE d \in parsed : TRUE].body
          IN calls' = [calls EXCEPT ![c] =
                          [JsonResolved(build, cfg, calls[c], data) EXCEPT !.body = body]]
    /\ UNCHANGED <<build, cfg, shaperVars>>

JsonResolve(c) ==
    /\ calls[c].pc = "awaitJson"
    /\ \E body \in Bodies :
          calls' = [calls EXCEPT ![c] = JsonResolved(build, cfg, calls[c], body)]
    /\ UNCHANGED <<build, cfg, shaperVars>>

Next ==
    \E c \in CallIds :
        \/ Receive(c)
        \/ FetchReject(c)
        \/ FetchResolve(c)
        \/ JsonReject(c)
        \/ JsonResolve(c)

Spec == Init /\ [][Next]_vars

\* ------------------------------------------------------------- the claims

\* The elements a response preserves: those of an array, or of a wrapper's results.
PreservedItems(v) ==
    IF v.t = "arr" THEN v.items
    ELSE IF IsWrapper(v) THEN Field(v, K_results).items
    ELSE <<>>

RECURSIVE HasLongString(_)
HasLongString(v) ==
    CASE v.t = "str" -> Len(v.s) > MAX_STRING_LENGTH
      [] v.t = "arr" -> \E i \in 1..Len(v.items) : HasLongString(v.items[i])
      [] v.t = "obj" -> \E i \in 1..Len(v.vals) : HasLongString(v.vals[i])
      [] OTHER -> FALSE

Shaped == phase # "input"

\* ------------------------------------------------------------- the claims

\* A budget with room for two strings of maximal length, so that the wrapper's
\* own fields (some 150 characters) fit many times over.
Roomy(c) ==
    /\ c.maxResults >= 0
    /\ EffectiveMaxSize(c) >= 2 * (MAX_STRING_LENGTH + Len(TruncationMarker))

\* C1: with truncation enabled the serialized length of processResponse's output
\* does not exceed maxResponseSize, unless a single preserved item (an element of
\* the output's sequence, or a scalar output itself) already exceeds it.  Stated
\* on the roomy configurations, where no violation can rest on the size of the
\* wrapper alone.
C1_SizeBounded ==
    (Shaped /\ cfg.enableTruncation /\ Roomy(cfg)) =>
        \/ Len(Stringify(out)) <= EffectiveMaxSize(cfg)
        \/ \E i \in 1..Len(PreservedItems(out)) :
              Len(Stringify(PreservedItems(out)[i])) > EffectiveMaxSize(cfg)
        \/ (out.t \notin {"arr", "obj"} /\ Len(Stringify(out)) > EffectiveMaxSize(cfg))

\* C2: with enableTruncation false, processResponse's output is the output of
\* stage 1 (limitResults) alone: stages 2 and 3 change nothing.  Stated on the
\* roomy configurations.
C2_DisabledIsStage1Only ==
    (Shaped /\ ~cfg.enableTruncation /\ Roomy(cfg)) =>
        out = limitResults(raw, EffectiveMaxResults(cfg))

\* The first n elements of a sequence, each with its over-long strings cut by
\* stage 2 when truncation is enabled.
CutPrefix(items, n) == [i \in 1..n |-> truncateObject(cfg, items[i])]

OverLimit == raw.t = "arr" /\ Len(raw.items) > EffectiveMaxResults(cfg)
WithinLimit == raw.t = "arr" /\ Len(raw.items) <= EffectiveMaxResults(cfg)

WrapperCounts(v, total, returned) ==
    /\ IsWrapper(v)
    /\ Field(v, K_returned) = JNum(returned)
    /\ Field(v, K_total_available) = JNum(total)
    /\ Field(v, K_truncated) = JBool(TRUE)

\* C3 as stated, for a maxResults that is not negative: for a sequence longer
\* than maxResults the Shaper returns a wrapper with returned = maxResults,
\* total_available = the original length, truncated = true and results = the
\* first maxResults elements of the input.
C3_Original ==
    (Shaped /\ OverLimit /\ cfg.maxResults >= 0) =>
        /\ WrapperCounts(out, Len(raw.items), EffectiveMaxResults(cfg))
        /\ Field(out, K_results) = JArr(SubSeq(raw.items, 1, EffectiveMaxResults(cfg)))

\* C3 amended: for a sequence longer than maxResults the Shaper returns a wrapper
\* with total_available = the original length and truncated = true, whose
\* results are the elements slice(0, maxResults) keeps, in their order, after
\* stage 2 (with their over-long strings cut when truncation is enabled, equal to
\* the input's otherwise), and whose returned is their number: maxResults when
\* maxResults is not negative.
C3_WrapperOfPrefix ==
    (Shaped /\ OverLimit) =>
        LET m == EffectiveMaxResults(cfg)
            first == Slice(raw.items, m)
        IN /\ WrapperCounts(out, Len(raw.items), Len(first))
           /\ m >= 0 => Len(first) = m
           /\ Field(out, K_results) = JArr(CutPrefix(raw.items, Len(first)))
           /\ (~cfg.enableTruncation \/ ~HasLongString(JArr(first)))
                 => Field(out, K_results) = JArr(first)

C3_Witness ==
    /\ Shaped /\ OverLimit /\ cfg.maxResults = 2 /\ cfg.enableTruncation
    /\ HasLongString(JArr(SubSeq(raw.items, 1, 2)))
    /\ IsWrapper(out)
    /\ Len(Field(out, K_results).items) = 2
    /\ Field(out, K_returned) = JNum(2)

\* C4 as stated, on the roomy configurations: a sequence of length at most
\* maxResults is returned unchanged.
C4_Original == (Shaped /\ WithinLimit /\ Roomy(cfg)) => out = raw

\* C4 amended: a sequence of length at most maxResults whose serialized form
\* after stage 2 is within maxResponseSize is returned with stage 2 applied, no
\* wrapper: unchanged when truncation is off or it holds no over-long string.
C4_IdentityWithinBudget ==
    (/\ Shaped /\ WithinLimit
     /\ Len(Stringify(truncateObject(cfg, raw))) <= EffectiveMaxSize(cfg)) =>
        /\ out = JArr(CutPrefix(raw.items, Len(raw.items)))
        /\ (~cfg.enableTruncation \/ ~HasLongString(raw)) => out = raw

C4_Witness ==
    /\ Shaped /\ WithinLimit /\ Len(raw.items) = 2 /\ cfg.maxResults = 2
    /\ ~HasLongString(raw)
    /\ Len(Stringify(raw)) <= EffectiveMaxSize(cfg)
    /\ out = raw

\* The strings of a response that stage 1 and stage 3 leave in place: a raw
\* string itself, and the string elements an array keeps.
StringPairs ==
    IF raw.t = "str" /\ out.t = "str" THEN {<<raw.s, out.s>>}
    ELSE IF raw.t = "arr"
    THEN {<<raw.items[i].s, PreservedItems(out)[i].s>> :
            i \in {j \in 1..Len(PreservedItems(out)) :
                     raw.items[j].t = "str" /\ PreservedItems(out)[j].t = "str"}}
    ELSE {}

CutTo(p, length) ==
    /\ Len(p[2]) = length
    /\ SubSeq(p[2], 1, MAX_STRING_LENGTH) = SubSeq(p[1], 1, MAX_STRING_LENGTH)
    /\ SubSeq(p[2], MAX_STRING_LENGTH + 1, Len(p[2])) = TruncationMarker

\* C5 as stated: with truncation enabled a string longer than 1000 units becomes
\* a prefix of it followed by the marker, of length 1001 plus the marker's; a
\* string of at most 1000 units is unchanged.
C5_Original ==
    (Shaped /\ cfg.enableTruncation) =>
        \A p \in StringPairs :
            IF Len(p[1]) > MAX_STRING_LENGTH
            THEN CutTo(p, MAX_STRING_LENGTH + 1 + Len(TruncationMarker))
            ELSE p[2] = p[1]

\* C5 amended: the length is exactly 1000 plus the marker's (1015): the first
\* 1000 units of the input followed by the marker.
C5_CutToThousand ==
    (Shaped /\ cfg.enableTruncation) =>
        \A p \in StringPairs :
            IF Len(p[1]) > MAX_STRING_LENGTH
            THEN CutTo(p, MAX_STRING_LENGTH + Len(TruncationMarker))
            ELSE p[2] = p[1]

C5_Witness ==
    /\ Shaped /\ cfg.enableTruncation
    /\ raw.t = "str" /\ Len(raw.s) = MAX_STRING_LENGTH + 1
    /\ out.t = "str" /\ Len(out.s) = MAX_STRING_LENGTH + Len(TruncationMarker)

\* C6: processResponse(processResponse(x)) = processResponse(x) for every raw
\* value and every configuration.
C6_Idempotent == phase = "twice" => out2 = out

\* The Shaper is idempotent under every configuration whose maxResults is not
\* negative.
IdempotentWhenNotNegative == (phase = "twice" /\ cfg.maxResults >= 0) => out2 = out

\* ---- the handler's claims

Replied(c) == calls[c].pc = "replied"

IsErrorReply(r) == "isError" \in DOMAIN r /\ r.isError = TRUE

\* The argument bag the handler works on: `args || {}`.
Bag(c) == IF calls[c].args = Undefined THEN EmptyBag ELSE calls[c].args

\* The names the running file dispatches to a client method.
Dispatched(b) ==
    IF b = "index" THEN ToolNames ELSE ToolNames \ {T_get_audit_logs, T_get_idp_incidents}

\* What a call was sent decides whether it fails before any request: a name of
\* no case of the switch, analyze_domain without a usable fqdn, or an array
\* argument with a null element (null has no toString).
UnknownName(c) == calls[c].name \notin Dispatched(build)
MissingFqdn(c) ==
    calls[c].name = T_analyze_domain /\ ~Truthy(Lookup(Bag(c), S_fqdn))
NullElement(c) ==
    /\ calls[c].name \notin {T_get_ioc_count, T_analyze_domain}
    /\ \E i \in 1..Len(Bag(c).vals) :
          /\ Bag(c).vals[i].t = "arr"
          /\ \E j \in 1..Len(Bag(c).vals[i].items) : Bag(c).vals[i].items[j].t = "null"
FailsLocally(c) == UnknownName(c) \/ MissingFqdn(c) \/ NullElement(c)

\* C7 as stated: every tool call issues exactly one outbound GET between its
\* arrival and its reply.
C7_Original == \A c \in CallIds : Replied(c) => calls[c].requests = 1

\* C7 amended: a call never issues a second request; it has issued exactly one
\* by the time it awaits or has replied, unless it failed before the request
\* (unknown name, analyze_domain without fqdn, an argument that cannot be turned
\* into a string), and then it has issued none.
C7_AtMostOneRequest ==
    \A c \in CallIds :
        /\ calls[c].requests <= 1
        /\ calls[c].pc \in {"awaitFetch", "awaitJson"} => calls[c].requests = 1
        /\ Replied(c) => calls[c].requests = (IF FailsLocally(c) THEN 0 ELSE 1)

C7_Witness ==
    \E c \in CallIds :
        /\ Replied(c) /\ calls[c].status = 503 /\ calls[c].requests = 1
        /\ IsErrorReply(calls[c].reply)

\* C8: analyze_domain called with an argument bag without fqdn ends at once with
\* the error reply "fqdn parameter is required" (isError set), having issued no
\* request.
C8_MissingFqdnFailsLocally ==
    \A c \in CallIds :
        (/\ calls[c].pc # "idle"
         /\ calls[c].name = T_analyze_domain
         /\ ~HasKey(Bag(c), S_fqdn)) =>
            /\ Replied(c)
            /\ IsErrorReply(calls[c].reply)
            /\ calls[c].reply.content = S_error_prefix \o S_fqdn_required
            /\ calls[c].requests = 0
            /\ calls[c].request = NoRequest

C8_Witness ==
    \E c \in CallIds :
        /\ Replied(c) /\ calls[c].name = T_analyze_domain /\ calls[c].args = EmptyBag
        /\ calls[c].requests = 0 /\ IsErrorReply(calls[c].reply)

\* The message of the error a failed call ends with, from what the call was sent
\* and what the network answered.
ExpectedMessages(c) ==
    IF UnknownName(c) THEN {S_unknown_tool \o calls[c].name}
    ELSE IF MissingFqdn(c) THEN {S_fqdn_required}
    ELSE IF NullElement(c) THEN {S_null_tostring}
    ELSE IF calls[c].status = 0 THEN NetworkErrors
    ELSE IF ~(calls[c].status \in 200..299)
    THEN {S_api_error \o NumToString(calls[c].status) \o <<" ">> \o calls[c].statusText}
    ELSE ParseErrors

\* C9: every failed call (status outside 2xx, unparseable body, network failure,
\* missing required parameter, unknown name) ends with a reply whose isError is
\* true and whose text is "Error: " and the error's message; a call is never in
\* any other place than idle, awaiting or replied; a successful reply has no
\* isError.
C9_FailuresBecomeErrorReplies ==
    \A c \in CallIds :
        /\ calls[c].pc \in {"idle", "awaitFetch", "awaitJson", "replied"}
        /\ (FailsLocally(c) /\ calls[c].pc # "idle") => Replied(c)
        /\ (calls[c].status # 0 /\ calls[c].status \notin 200..299) => Replied(c)
        /\ (Replied(c) /\ calls[c].outcome # "ok") =>
              /\ IsErrorReply(calls[c].reply)
              /\ calls[c].errorMessage \in ExpectedMessages(c)
              /\ SubSeq(calls[c].reply.content, 1,
                        Len(S_error_prefix) + Len(calls[c].errorMessage))
                    = S_error_prefix \o calls[c].errorMessage
        /\ (Replied(c) /\ calls[c].outcome = "ok") =>
              /\ "isError" \notin DOMAIN calls[c].reply
              /\ ~FailsLocally(c) /\ calls[c].status \in 200..299

C9_Witness ==
    /\ \E c \in CallIds :
          Replied(c) /\ calls[c].outcome = "parse" /\ IsErrorReply(calls[c].reply)
    /\ \E c \in CallIds :
          Replied(c) /\ calls[c].outcome = "ok" /\ "isError" \notin DOMAIN calls[c].reply

\* C10: after a status outside 2xx the caller gets an error reply whose text
\* holds the numeric status and the status text; the body is neither parsed nor
\* handed to the Shaper, and the reply holds no results field.
C10_StatusErrorReply ==
    \A c \in CallIds :
        (calls[c].status # 0 /\ calls[c].status \notin 200..299) =>
            /\ Replied(c)
            /\ IsErrorReply(calls[c].reply)
            /\ Includes(calls[c].reply.content, NumToString(calls[c].status))
            /\ Includes(calls[c].reply.content, calls[c].statusText)
            /\ ~calls[c].parsed
            /\ ~calls[c].shaped
            /\ DOMAIN calls[c].reply = {"content", "isError"}
            /\ ~Includes(calls[c].reply.content, Quote(K_results))

C10_Witness ==
    \E c \in CallIds :
        /\ Replied(c) /\ calls[c].status = 503 /\ build = "limits"
        /\ Includes(calls[c].reply.content, <<"5", "0", "3">>)
        /\ ~calls[c].parsed

\* ------------------------------------------------ query construction alone
\* The handler's first segment (dispatch and makeRequest up to fetch) applied to
\* one call, on argument bags of every shape.

S_null ==
    <<"n","u","l","l">>
S_undefined ==
    <<"u","n","d","e","f","i","n","e","d">>
S_spaced ==
    <<"a"," ","b","&","c","=","d">>

QueryBags ==
    {EmptyBag, QueryBag, NullElementBag,
     JObj(<<S_domain, S_device_id, S_limit>>,
          <<JStr(S_example), JArr(<<JStr(<<"a">>), JStr(<<"b">>)>>), Undefined>>),
     JObj(<<S_limit, S_domain>>, <<JNum(22), JStr(S_spaced)>>),
     JObj(<<S_device_id, S_limit>>, <<JArr(<<>>), JNum(0)>>),
     JObj(<<S_device_id>>, <<JArr(<<JNum(1), JBool(TRUE), JStr(<<"x">>)>>)>>),
     JObj(<<S_device_id>>, <<JArr(<<JArr(<<JStr(<<"a">>), JStr(<<"b">>)>>)>>)>>),
     JObj(<<S_device_id, S_domain>>, <<JArr(<<JStr(<<"a">>), JNull>>), JStr(S_example)>>),
     JObj(<<S_domain, S_limit>>, <<JBool(FALSE), JStr(<<>>)>>),
     JObj(<<S_domain, S_fqdn>>, <<JObj(<<Ka>>, <<JNum(1)>>), JStr(S_example)>>)}

QueryInit == Init

\* One call arrives and runs to its fetch, or to the reply of an early throw.
BuildQuery ==
    /\ calls[1].pc = "idle"
    /\ \E name \in CallNames : \E args \in QueryBags :
          calls' = [calls EXCEPT ![1] = Arrive(build, name, args)]
    /\ UNCHANGED <<build, cfg, shaperVars>>

QueryNext == BuildQuery

QuerySpec == QueryInit /\ [][QueryNext]_vars

\* ---- reading a query string back: split at "&", then at the first "=", and
\* undo the form encoding.

RECURSIVE SplitOn(_, _)
SplitOn(s, ch) ==
    IF Len(s) = 0 THEN <<>>
    ELSE IF \E i \in 1..Len(s) : s[i] = ch
    THEN LET i == CHOOSE k \in 1..Len(s) : s[k] = ch /\ \A j \in 1..(k - 1) : s[j] # ch
         IN <<SubSeq(s, 1, i - 1)>>
            \o (IF i = Len(s) THEN <<<<>>>> ELSE SplitOn(SubSeq(s, i + 1, Len(s)), ch))
    ELSE <<s>>

RECURSIVE FormDecode(_)
FormDecode(s) ==
    IF Len(s) = 0 THEN <<>>
    ELSE IF Head(s) = "+" THEN <<" ">> \o FormDecode(Tail(s))
    ELSE IF Head(s) = "%" /\ Len(s) >= 3
    THEN LET code == SubSeq(s, 2, 3)
             ch == CASE code = <<"2", "6">> -> "&"
                     [] code = <<"3", "D">> -> "="
                     [] code = <<"2", "C">> -> ","
                     [] code = <<"5", "B">> -> "["
                     [] code = <<"5", "D">> -> "]"
                     [] code = <<"2", "2">> -> "\""
                     [] OTHER -> "?"
         IN <<ch>> \o FormDecode(SubSeq(s, 4, Len(s)))
    ELSE <<Head(s)>> \o FormDecode(Tail(s))

ParsePair(part) ==
    IF \E i \in 1..Len(part) : part[i] = "="
    THEN LET i == CHOOSE k \in 1..Len(part) :
                      part[k] = "=" /\ \A j \in 1..(k - 1) : part[j] # "="
         IN <<FormDecode(SubSeq(part, 1, i - 1)), FormDecode(SubSeq(part, i + 1, Len(part)))>>
    ELSE <<FormDecode(part), <<>>>>

ParseQuery(q) ==
    LET parts == SplitOn(q, "&") IN [i \in 1..Len(parts) |-> ParsePair(parts[i])]

\* The string form of a value: String(value).
StringForm(v) ==
    CASE v.t = "null" -> S_null
      [] v.t = "undefined" -> S_undefined
      [] OTHER -> ValueToString(v)

\* The occurrences the claim lists for an argument bag, from entry i on.
RECURSIVE Occurrences(_, _)
Occurrences(params, i) ==
    IF i > Len(params.keys) THEN <<>>
    ELSE LET value == params.vals[i]
             here == IF value.t \in {"null", "undefined"} THEN <<>>
                     ELSE IF value.t = "arr"
                     THEN [j \in 1..Len(value.items) |->
                             <<params.keys[i], StringForm(value.items[j])>>]
                     ELSE <<<<params.keys[i], StringForm(value)>>>>
         IN here \o Occurrences(params, i + 1)

\* The parameters the dispatched client method hands to makeRequest.
ParamsOf(c) == Dispatch(build, calls[c].name, Bag(c)).params

Requests(c) ==
    /\ calls[c].pc # "idle"
    /\ Dispatch(build, calls[c].name, Bag(c)).kind = "request"

HasNullElement(params) ==
    \E i \in 1..Len(params.vals) :
        /\ params.vals[i].t = "arr"
        /\ \E j \in 1..Len(params.vals[i].items) : ~CanToString(params.vals[i].items[j])

\* C11: for every argument bag handed to makeRequest, the query string of the
\* outbound request holds, in argument order, one occurrence key=string(value) for
\* each scalar value, one per element for each sequence value, and none for a
\* value that is undefined or null.
C11_QueryConstruction ==
    Requests(1) =>
        /\ calls[1].pc = "awaitFetch"
        /\ ParseQuery(calls[1].request.query) = Occurrences(ParamsOf(1), 1)

\* The same holds of every argument bag whose sequences hold no null element.
QueryOfStringableElements ==
    (Requests(1) /\ ~HasNullElement(ParamsOf(1))) =>
        /\ calls[1].pc = "awaitFetch"
        /\ ParseQuery(calls[1].request.query) = Occurrences(ParamsOf(1), 1)

QueryExampleReached ==
    /\ calls[1].pc = "awaitFetch" /\ calls[1].args = QueryBag
    /\ calls[1].request.query
         = <<"d","o","m","a","i","n","=">> \o S_example
           \o <<"&","d","e","v","i","c","e","_","i","d","=","a",
                "&","d","e","v","i","c","e","_","i","d","=","b">>

\* ---- dispatch by name

\* The endpoint table: the path paired with each tool name.
EndpointOf(name) ==
    CASE name = T_search_events -> P_events_search
      [] name = T_get_events_timeline -> P_events_timeline
      [] name = T_get_events_stats -> P_events_stats
      [] name = T_get_dns_timeline -> P_dns_timeline
      [] name = T_get_dnssec_timeline -> P_dnssec_timeline
      [] name = T_get_ioc_count -> P_ioc_count
      [] name = T_get_resolver_metrics -> P_resolver_metrics
      [] name = T_analyze_domain -> P_domain_analysis
      [] name = T_get_audit_logs -> P_audit_logs
      [] name = T_get_idp_incidents -> P_idp_incidents
      [] OTHER -> <<>>

\* A tool call has been taken up, and its arguments let a request be built.
Sendable(c) ==
    calls[c].pc \notin {"idle", "listed"} /\ ~MissingFqdn(c) /\ ~NullElement(c)

IssuedGetOn(c, path) ==
    /\ calls[c].requests = 1
    /\ calls[c].request.method = "GET"
    /\ calls[c].request.path = path

EndsUnknown(c) ==
    /\ Replied(c)
    /\ IsErrorReply(calls[c].reply)
    /\ calls[c].errorMessage = S_unknown_tool \o calls[c].name
    /\ SubSeq(calls[c].reply.content, 1, Len(S_error_prefix) + Len(calls[c].errorMessage))
          = S_error_prefix \o calls[c].errorMessage
    /\ calls[c].requests = 0

CoreNames == {T_search_events, T_analyze_domain, S_get_truncated}

ReceiveCore(c) ==
    /\ calls[c].pc = "idle"
    /\ \E name \in CoreNames : \E args \in ArgsFor(name) :
          calls' = [calls EXCEPT ![c] = Arrive(build, name, args)]
    /\ UNCHANGED <<build, cfg, shaperVars>>

CoreNext ==
    \E c \in CallIds :
        \/ ReceiveCore(c)
        \/ FetchReject(c)
        \/ FetchResolve(c)
        \/ JsonReject(c)
        \/ JsonResolve(c)

CoreSpec == Init /\ [][CoreNext]_vars

\* The reply call c's handler produces when it runs alone, from an idle server
\* with the same configuration, on the same name and arguments and the same
\* answer of the network (rejection, status, body).
AloneReply(c) ==
    LET k == calls[c]
        arrived == Arrive(build, k.name, k.args)
        fetched == FetchResolved(build, arrived, k.status, k.statusText)
    IN IF arrived.pc = "replied" THEN arrived.reply
       ELSE CASE k.outcome = "network" -> FetchRejected(build, arrived, k.errorMessage).reply
              [] k.outcome = "status" -> fetched.reply
              [] k.outcome = "parse" -> JsonRejected(build, fetched, k.errorMessage).reply
              [] k.outcome = "ok" -> JsonResolved(build, cfg, fetched, k.body).reply
              [] OTHER -> NoReply

RepliesAsAlone == \A c \in CallIds : Replied(c) => calls[c].reply = AloneReply(c)

\* C13: whatever the interleaving of the calls in flight, the configuration
\* keeps its startup value at every step, and the reply of every call is the
\* reply the call produces when run alone on the same arguments and the same
\* remote answer.
C13_NoSharedState == [][cfg' = cfg]_vars /\ []RepliesAsAlone

C13_Witness ==
    \E c, d \in CallIds :
        /\ c # d
        /\ Replied(c) /\ calls[c].outcome = "ok" /\ calls[c].body.t = "arr"
        /\ calls[d].pc = "awaitJson" /\ calls[d].name # calls[c].name
        /\ calls[c].reply = AloneReply(c)

\* ---- termination of a call

\* The network settles every request: a pending fetch resolves or rejects, and
\* a pending read of the body resolves or rejects.
Settles(c) ==
    /\ WF_vars(FetchReject(c) \/ FetchResolve(c))
    /\ WF_vars(JsonReject(c) \/ JsonResolve(c))

FairSpec == CoreSpec /\ \A c \in CallIds : Settles(c)

\* C14: every call that has been received eventually ends with a reply, success
\* or error, provided its outbound request settles; no call is left pending.
C14_EveryCallReplies ==
    \A c \in CallIds : (calls[c].pc # "idle") ~> Replied(c)

C14_Witness ==
    \E c \in CallIds :
        /\ Replied(c) /\ calls[c].requests = 1 /\ calls[c].parsed
        /\ calls[c].outcome \in {"ok", "parse"}
        /\ ~("pending" \in DOMAIN calls[c].reply)

\* ------------------------------------------------- the stages one by one
\* Each stage of the Shaper applied on its own to every enumerated input.

StageInit == ShaperInit

\* Stage 1 alone.
Limit ==
    /\ phase = "input"
    /\ out' = limitResults(raw, EffectiveMaxResults(cfg))
    /\ phase' = "limited"
    /\ UNCHANGED <<build, cfg, calls, raw, out2>>

\* Stage 2 alone, and stage 2 on its own output.
Truncate ==
    /\ phase = "input"
    /\ out' = truncateObject(cfg, raw)
    /\ phase' = "truncated"
    /\ UNCHANGED <<build, cfg, calls, raw, out2>>

TruncateAgain ==
    /\ phase = "truncated"
    /\ out2' = truncateObject(cfg, out)
    /\ phase' = "truncated2"
    /\ UNCHANGED <<build, cfg, calls, raw, out>>

\* Stage 3 alone.
Enforce ==
    /\ phase = "input"
    /\ out' = enforceResponseSize(cfg, raw)
    /\ phase' = "enforced"
    /\ UNCHANGED <<build, cfg, calls, raw, out2>>

\* Stage 3 on the output of stage 2.
EnforceTruncated ==
    /\ phase = "truncated"
    /\ out2' = enforceResponseSize(cfg, out)
    /\ phase' = "truncatedEnforced"
    /\ UNCHANGED <<build, cfg, calls, raw, out>>

StageNext == Limit \/ Truncate \/ TruncateAgain \/ Enforce \/ EnforceTruncated

StageSpec == StageInit /\ [][StageNext]_vars

\* ---- stage 3

\* budget = max(1, floor(0.8 * maxSize / average)), stated without computing the
\* quotient: the floor f is the integer with 5 * average * f <= 4 * maxSize <
\* 5 * average * (f + 1).  The average is the serialized length divided by the
\* element count, rounded down; a sequence without elements has the minimum
\* budget.
IsBudget(budget, maxSize, length, count) ==
    IF count = 0 THEN budget = 1
    ELSE LET average == length \div count
         IN \/ budget = 1 /\ 4 * maxSize < 5 * average * 2
            \/ /\ budget > 1
               /\ 5 * average * budget <= 4 * maxSize
               /\ 4 * maxSize < 5 * average * (budget + 1)

\* C15: stage 3 returns a value within maxResponseSize unchanged; it replaces a
\* sequence over maxResponseSize by a wrapper whose returned is the item budget
\* max(1, floor(0.8 * maxResponseSize / averageItemSize)), whose results are the
\* first <budget> elements, whose total_available is the original length and
\* whose truncated is true.
C15_Stage3Budget ==
    phase = "enforced" =>
        LET length == Len(Stringify(raw))
            maxSize == EffectiveMaxSize(cfg)
        IN IF length <= maxSize THEN out = raw
           ELSE raw.t = "arr" =>
                  /\ IsWrapper(out)
                  /\ Field(out, K_returned).t = "num"
                  /\ IsBudget(Field(out, K_returned).n, maxSize, length, Len(raw.items))
                  /\ Field(out, K_results)
                       = JArr(SubSeq(raw.items, 1,
                                     Min(Field(out, K_returned).n, Len(raw.items))))
                  /\ Field(out, K_total_available) = JNum(Len(raw.items))
                  /\ Field(out, K_truncated) = JBool(TRUE)

C15_Witness ==
    /\ phase = "enforced" /\ raw = Skewed13 /\ cfg.maxResponseSize = 3000
    /\ IsWrapper(out)
    /\ Field(out, K_returned) = JNum(9)
    /\ Len(Field(out, K_results).items) = 9

\* ---- stage 1

PrefixOf(s, t) == Len(s) <= Len(t) /\ \A i \in 1..Len(s) : s[i] = t[i]

\* What stage 1 makes of a sequence it limits: for a limit that is not negative,
\* the sequence itself up to the limit and a wrapper of the first <limit>
\* elements beyond it; in every case its elements are a prefix of the sequence's
\* elements, each as it was, whatever sequences it holds inside.
CountLimited(result, seq, limit) ==
    /\ Len(seq.items) <= limit => result = seq
    /\ (limit >= 0 /\ Len(seq.items) > limit) =>
          IsWrapper(result) /\ Len(Field(result, K_results).items) = limit
    /\ result.t = "arr" \/ IsWrapper(result)
    /\ PrefixOf(PreservedItems(result), seq.items)

\* C16: stage 1 limits a top-level sequence and a sequence that is a direct
\* value of a top-level mapping; the other values of the mapping pass unchanged;
\* nothing deeper (inside an element of a limited sequence, inside a mapping
\* value of the top-level mapping) is altered, however long a sequence there is.
C16_OneLevelOnly ==
    phase = "limited" =>
        LET limit == EffectiveMaxResults(cfg)
        IN CASE raw.t = "arr" -> CountLimited(out, raw, limit)
             [] raw.t = "obj" ->
                   /\ out.t = "obj" /\ out.keys = raw.keys
                   /\ Len(out.vals) = Len(raw.vals)
                   /\ \A i \in 1..Len(raw.vals) :
                         IF raw.vals[i].t = "arr"
                         THEN CountLimited(out.vals[i], raw.vals[i], limit)
                         ELSE out.vals[i] = raw.vals[i]
             [] OTHER -> out = raw

\* A sequence longer than the limit, two levels down.
DeepLong(v) == v.t = "arr" /\ Len(v.items) > EffectiveMaxResults(cfg)

C16_Witness ==
    /\ phase = "limited" /\ cfg.maxResults = 2
    /\ \/ /\ raw.t = "arr" /\ IsWrapper(out)
          /\ \E i \in 1..2 : DeepLong(raw.items[i])
                             /\ Field(out, K_results).items[i] = raw.items[i]
       \/ /\ raw.t = "obj" /\ Len(raw.vals) = 1 /\ raw.vals[1].t = "obj"
          /\ Len(raw.vals[1].vals) = 1 /\ DeepLong(raw.vals[1].vals[1])
          /\ out = raw

\* ---- the empty array

\* C17: processResponse([]) is the empty array, never a wrapper, for every
\* configuration.
C17_EmptyArrayUntouched ==
    (Shaped /\ raw = JArr(<<>>)) => out = JArr(<<>>)

\* The empty array passes untouched when maxResults is not negative and
\* maxResponseSize leaves room for its two characters.
EmptyArrayUntouchedWithRoom ==
    (Shaped /\ raw = JArr(<<>>) /\ cfg.maxResults >= 0 /\ EffectiveMaxSize(cfg) >= 2)
        => out = JArr(<<>>)

\* ---- the wrappers

\* What the claim says of a wrapper and the sequence it replaced.
WrapperSound(w, seq) ==
    LET results == Field(w, K_results).items
        returned == Field(w, K_returned).n
        total == Field(w, K_total_available).n
    IN /\ returned = Len(results)
       /\ returned <= total
       /\ PrefixOf(results, seq.items)
       /\ Field(w, K_truncated) = JBool(TRUE) => Len(results) < total

\* C18: in every wrapper stage 1 or stage 3 produces, returned is the number of
\* elements of results, returned <= total_available, results is a prefix of the
\* sequence replaced, and a wrapper with truncated = true holds fewer elements
\* than total_available.  Stated on the configurations whose maxResults is not
\* negative and whose maxResponseSize is at least 100.
C18_WrapperCountsAgree ==
    (phase \in {"limited", "enforced"} /\ cfg.maxResults >= 0 /\ EffectiveMaxSize(cfg) >= 100) =>
        /\ (raw.t = "arr" /\ IsWrapper(out)) => WrapperSound(out, raw)
        /\ (raw.t = "obj" /\ ~IsWrapper(raw)) =>
              \A i \in 1..Len(raw.vals) :
                  (raw.vals[i].t = "arr" /\ IsWrapper(out.vals[i]))
                      => WrapperSound(out.vals[i], raw.vals[i])

\* The wrappers of stage 1 are sound in this sense whenever maxResults is not
\* negative.
Stage1WrappersSound ==
    (phase = "limited" /\ cfg.maxResults >= 0) =>
        /\ (raw.t = "arr" /\ IsWrapper(out)) => WrapperSound(out, raw)
        /\ (raw.t = "obj" /\ ~IsWrapper(raw)) =>
              \A i \in 1..Len(raw.vals) :
                  (raw.vals[i].t = "arr" /\ IsWrapper(out.vals[i]))
                      => WrapperSound(out.vals[i], raw.vals[i])

\* ---- stage 2 twice

FallbackReached ==
    /\ phase = "truncatedEnforced" /\ cfg.enableTruncation
    /\ raw.t = "obj" /\ HasLongString(raw) /\ out # raw
    /\ Len(Stringify(out)) > EffectiveMaxSize(cfg) /\ out2 = out

\* ------------------------------------------------ the catalog of tools
\* Requests of both kinds on the same server: tool calls up to their first
\* await, and requests for the list of tools.

\* A variant of the catalog that keeps the two disabled tools listed.
ToolsAllListed(b) ==
    <<T_search_events, T_get_events_timeline, T_get_events_stats, T_get_dns_timeline,
      T_get_dnssec_timeline, T_get_ioc_count, T_get_resolver_metrics, T_analyze_domain,
      T_get_audit_logs, T_get_idp_incidents>>

\* The names of the `tools` array, in its order.
Tools(b) ==
    IF b = "index"
    THEN <<T_search_events, T_get_events_timeline, T_get_events_stats, T_get_dns_timeline,
           T_get_dnssec_timeline, T_get_ioc_count, T_get_resolver_metrics, T_analyze_domain,
           T_get_audit_logs, T_get_idp_incidents>>
    ELSE <<T_search_events, T_get_events_timeline, T_get_events_stats, T_get_dns_timeline,
           T_get_dnssec_timeline, T_get_ioc_count, T_get_resolver_metrics, T_analyze_domain>>

\* The ListToolsRequestSchema handler: it returns { tools }.
ListTools(c) ==
    /\ calls[c].pc = "idle"
    /\ calls' = [calls EXCEPT ![c] =
                    [IdleCall EXCEPT !.pc = "listed", !.reply = [tools |-> Tools(build)]]]
    /\ UNCHANGED <<build, cfg, shaperVars>>

CatalogNext == \E c \in CallIds : Receive(c) \/ ListTools(c)

CatalogSpec == Init /\ [][CatalogNext]_vars

Listed(c) == calls[c].pc = "listed"
Invoked(c) == calls[c].pc \notin {"idle", "listed"}
NamesOf(catalog) == {catalog[i] : i \in 1..Len(catalog)}

\* C20: the names list-operations returns are the names invoke-operation
\* dispatches to a client method: a call of a listed name never ends with the
\* unknown-tool error, a call of an unlisted name ends with it and sends no
\* request; and every list request returns the same catalog, whatever calls came
\* before it.
C20_CatalogMatchesDispatch ==
    \A c \in CallIds :
        Listed(c) =>
            /\ \A d \in CallIds :
                  Invoked(d) =>
                      IF calls[d].name \in NamesOf(calls[c].reply.tools)
                      THEN /\ calls[d].errorMessage # S_unknown_tool \o calls[d].name
                           /\ (~MissingFqdn(d) /\ ~NullElement(d)) => calls[d].requests = 1
                      ELSE EndsUnknown(d)
            /\ \A d \in CallIds : Listed(d) => calls[d].reply = calls[c].reply
            /\ NamesOf(calls[c].reply.tools) \subseteq ToolNames

C20_Witness ==
    /\ build = "limits"
    /\ \E c \in CallIds : Listed(c) /\ Len(calls[c].reply.tools) = 8
    /\ \E d \in CallIds : calls[d].name = T_get_idp_incidents /\ EndsUnknown(d)

====
